---- MODULE Spec2Model ----
(***************************************************************************)
(* Model of monzo_viewer/app.py: the Flask request handlers of the Monzo   *)
(* viewer, the credential store they share (MONZO_HANDLER) and the calls   *)
(* they make to the monzo library.                                         *)
(*                                                                         *)
(* Text that comes from the user (form fields, query parameters) is a      *)
(* sequence of one-character strings, so that escape() can be modelled by  *)
(* what it does.  Text that is a literal of the program (template names,   *)
(* messages, exception names) is an ordinary TLA+ string.                  *)
(*                                                                         *)
(* One request is one step: a handler action takes the server from idle    *)
(* to a state holding the request, the trace of calls the handler made to  *)
(* its collaborators, and the response; Idle then forgets the finished     *)
(* request.  The credential store persists across requests.                *)
(***************************************************************************)
EXTENDS Naturals, Sequences, FiniteSets

VARIABLES store, req, calls, resp, provider_accounts, all_accounts, selected_accounts

vars == <<store, req, calls, resp, provider_accounts, all_accounts, selected_accounts>>

(* ------------------------------ bounds -------------------------------- *)

\* longest user-supplied text drawn for a form field or query parameter
MaxLen == 1

\* longest account list the provider returns to fetch_accounts
MaxAccounts == 3

\* characters user-supplied text is drawn from: one plain, one that escape() rewrites
Alphabet == {"a", "<"}

RECURSIVE SeqsOfLen(_, _)
SeqsOfLen(S, n) ==
    IF n = 0 THEN {<<>>}
    ELSE {Append(s, x) : s \in SeqsOfLen(S, n - 1), x \in S}

Texts == UNION {SeqsOfLen(Alphabet, n) : n \in 0..MaxLen}

(* ---------------------------- program text ---------------------------- *)

REDIRECT_URL == "http://127.0.0.1:5000/setup/callback"

PleaseSelect == <<"P", "l", "e", "a", "s", "e", " ", "S", "e", "l", "e", "c", "t">>

\* escape() of markupsafe, one character at a time
EscapeChar(c) ==
    CASE c = "&"  -> <<"&", "a", "m", "p", ";">>
      [] c = "<"  -> <<"&", "l", "t", ";">>
      [] c = ">"  -> <<"&", "g", "t", ";">>
      [] c = "'"  -> <<"&", "#", "3", "9", ";">>
      [] c = "\"" -> <<"&", "#", "3", "4", ";">>
      [] OTHER    -> <<c>>

RECURSIVE escape(_)
escape(s) == IF s = <<>> THEN <<>> ELSE EscapeChar(Head(s)) \o escape(Tail(s))

(* ------------------------- credential store --------------------------- *)

\* MONZO_HANDLER = FileSystem(file='monzo.json') before the setup flow has run
EmptyStore == [client_id |-> <<>>, client_secret |-> <<>>, access_token |-> <<>>]

\* FileSystem.is_configured: client id and client secret are both present
is_configured(st) == st.client_id # <<>> /\ st.client_secret # <<>>

\* FileSystem.set_client_details
set_client_details(st, client_id, client_secret) ==
    [st EXCEPT !.client_id = client_id, !.client_secret = client_secret]

\* FileSystem.store, called back by the library once a code exchange succeeded
AccessToken == <<"t", "o", "k">>
store_tokens(st, auth) ==
    [st EXCEPT !.client_id = auth.client_id,
               !.client_secret = auth.client_secret,
               !.access_token = AccessToken]

(* --------------------- calls made during a request -------------------- *)

\* one entry of the trace of calls a handler made to its collaborators: the call,
\* the Authentication object it was made with, its arguments and how it ended
Call(op, auth, args, out) == [op |-> op, auth |-> auth, args |-> args, out |-> out]

\* Authentication(...) itself sends nothing to the provider
Constructed(auth) == Call("Authentication", auth, <<>>, "ok")

NoAuth == [client_id |-> <<>>, client_secret |-> <<>>, redirect_url |-> "",
           access_token |-> <<>>]

\* Authentication(...) followed by register_callback_handler(MONZO_HANDLER)
Authentication(client_id, client_secret, access_token) ==
    [client_id |-> client_id, client_secret |-> client_secret,
     redirect_url |-> REDIRECT_URL, access_token |-> access_token]

auth_setup(st, client_id, client_secret) ==
    Authentication(IF client_id = <<>> THEN st.client_id ELSE client_id,
                   IF client_secret = <<>> THEN st.client_secret ELSE client_secret,
                   st.access_token)

\* Authentication.authentication_url: the provider's authorization page for this client
authentication_url(auth) ==
    [path |-> "https://auth.monzo.com", client_id |-> auth.client_id,
     client_secret |-> auth.client_secret, redirect_uri |-> auth.redirect_url]

LocalUrl(path) ==
    [path |-> path, client_id |-> <<>>, client_secret |-> <<>>, redirect_uri |-> ""]

\* what a call to the provider can end in: a result, or one of the library's errors
ProviderErrors == {"MonzoPermissionsError", "MonzoHTTPError",
                   "MonzoAuthenticationError", "MonzoServerError"}
Outcomes == {"ok"} \cup ProviderErrors

(* ------------------------------ responses ----------------------------- *)

render_template(template, context) ==
    [kind |-> "render", template |-> template, context |-> context,
     location |-> LocalUrl(""), exception |-> ""]

redirect(location) ==
    [kind |-> "redirect", template |-> "", context |-> [none |-> ""],
     location |-> location, exception |-> ""]

\* an exception that leaves the handler: Flask answers with its own error page
Raise(exception) ==
    [kind |-> "exception", template |-> "", context |-> [none |-> ""],
     location |-> LocalUrl(""), exception |-> exception]

Result(st, cs, r) == [store |-> st, calls |-> cs, resp |-> r]

(* ---------------------------- fetch_accounts -------------------------- *)

AccountTypes == {"Loan (Flex)", "Loan", "Current Account", "Flex"}

\* the provider's answer to Account.fetch: account i of the list has id i
AccountList(types) == [i \in 1..Len(types) |-> [id |-> i, account_type |-> types[i]]]

AccountLists ==
    {AccountList(types) : types \in UNION {SeqsOfLen(AccountTypes, n) : n \in 0..MaxAccounts}}

\* the lists the provider answers with while the handlers are exercised
SampleAccountLists ==
    {AccountList(<<>>),
     AccountList(<<"Current Account", "Loan", "Flex", "Loan (Flex)">>)}

fetch_accounts_skip_flex_only(account_list, all) ==
    IF ~all
    THEN SelectSeq(account_list, LAMBDA account : account.account_type # "Loan (Flex)")
    ELSE account_list

\* the body of fetch_accounts once Account.fetch has returned account_list
fetch_accounts(account_list, all) ==
    IF ~all
    THEN SelectSeq(account_list,
                   LAMBDA account : account.account_type \notin {"Loan (Flex)", "Loan"})
    ELSE account_list

NotFetched == [done |-> FALSE, value |-> <<>>]

(* ------------------------------- requests ----------------------------- *)

\* request.form / request.args: the fields that are present, each with its text
Restrict(f, D) == [k \in D |-> f[k]]
Forms(total, presences) == {Restrict(f, D) : f \in total, D \in presences}

Request(route, method, form) == [route |-> route, method |-> method, form |-> form]

NoForm == [none |-> <<>>]
NoRequest == Request("", "", NoForm)
NoResponse == Raise("")

(* -------------------------------- index ------------------------------- *)

LINKS == <<[name |-> "Accounts", url |-> "/accounts"],
           [name |-> "Feed Item", url |-> "/feed_item"],
           [name |-> "Raw Request", url |-> "/raw_request"]>>

index(st) ==
    IF ~is_configured(st)
    THEN Result(st, <<>>, redirect(LocalUrl("/setup/")))
    ELSE Result(st, <<>>, render_template("index.html", [links |-> LINKS]))

(* ------------------------------- accounts ----------------------------- *)

\* account_out, account_list: how Account.fetch ends, and its answer when it returns
accounts(st, account_out, account_list) ==
    IF ~is_configured(st)
    THEN Result(st, <<>>, redirect(LocalUrl("/setup/")))
    ELSE
      LET auth == auth_setup(st, <<>>, <<>>)
          cs   == <<Constructed(auth), Call("Account.fetch", auth, <<>>, account_out)>>
      IN  IF account_out = "ok"
          THEN Result(st, cs, render_template("accounts.html",
                              [accounts |-> fetch_accounts(account_list, TRUE)]))
          ELSE IF account_out = "MonzoPermissionsError"
          THEN Result(st, cs, render_template("error.html",
                              [error |-> "The request resulted in a permissions error."]))
          ELSE Result(st, cs, Raise(account_out))

(* ------------------------------- feed_item ---------------------------- *)

optional_parameters == {"body", "title_color", "body_color", "background_color", "image_url"}

None == <<"None">>

\* the params dictionary of lines 109-115
FeedParameters(form) ==
    [k \in {"title"} \cup (optional_parameters \cap DOMAIN form) |-> escape(form[k])]

feed_iten(st, method, form, account_out, account_list, create_out) ==
    LET auth == auth_setup(st, <<>>, <<>>)
        cs1  == <<Constructed(auth), Call("Account.fetch", auth, <<>>, account_out)>>
        accs == fetch_accounts(account_list, FALSE)
    IN  IF account_out # "ok" THEN Result(st, cs1, Raise(account_out))
        ELSE IF method = "GET"
        THEN Result(st, cs1, render_template("feed_item_form.html", [accounts |-> accs]))
        ELSE IF "title" \notin DOMAIN form THEN Result(st, cs1, Raise("BadRequestKeyError"))
        ELSE IF "account" \notin DOMAIN form THEN Result(st, cs1, Raise("BadRequestKeyError"))
        ELSE
          LET account       == escape(form["account"])
              feed_item_url == IF "feed_item_url" \in DOMAIN form
                               THEN escape(form["feed_item_url"]) ELSE None
              auth2 == auth_setup(st, <<>>, <<>>)
              cs2   == cs1 \o <<Constructed(auth2),
                                Call("FeedItem.create", auth2,
                                     [account_id |-> account, feed_type |-> "basic",
                                      params |-> FeedParameters(form),
                                      url |-> feed_item_url], create_out)>>
          IN  IF create_out = "ok"
              THEN Result(st, cs2, render_template("message.html",
                      [accounts |-> accs, message |-> "Feed item posted successfully."]))
              ELSE IF create_out = "MonzoHTTPError"
              THEN Result(st, cs2, render_template("error.html",
                      [accounts |-> accs,
                       message |-> "The Monzo API did not understand the request."]))
              ELSE IF create_out = "MonzoPermissionsError"
              THEN Result(st, cs2, render_template("error.html",
                      [accounts |-> accs,
                       message |-> "The request resulted in a permissions error."]))
              ELSE Result(st, cs2, Raise(create_out))

(* ------------------------------ transactions -------------------------- *)

ThirtyDays == 30

NoAccountSpecified == render_template("error.html", [message |-> "No account specified."])

PlaceholderIgnored(account) == FALSE

\* line 144
Placeholder(account) == account = PleaseSelect

transactions_for_account(st, form, fetch_out) ==
    IF ~("account" \in DOMAIN form /\ escape(form["account"]) # <<>>)
    THEN Result(st, <<>>, NoAccountSpecified)
    ELSE IF Placeholder(escape(form["account"]))
    THEN Result(st, <<>>, NoAccountSpecified)
    ELSE
      LET auth == auth_setup(st, <<>>, <<>>)
          cs   == <<Constructed(auth),
                   Call("Transaction.fetch", auth,
                        [account_id |-> escape(form["account"]),
                         since_days_ago |-> ThirtyDays, expand |-> <<"merchant">>],
                        fetch_out)>>
      IN  IF fetch_out = "ok"
          THEN Result(st, cs, render_template("transactions.html",
                              [transactions |-> "transactions"]))
          ELSE IF fetch_out = "MonzoPermissionsError"
          THEN Result(st, cs, render_template("error.html",
                 [message |-> "The API returned a permissions issue. Either the token has expired or the account cannot return transactions."]))
          ELSE Result(st, cs, Raise(fetch_out))

(* ------------------------------ raw_request --------------------------- *)

\* request.form.get(name, default)
FormGet(form, name, default) == IF name \in DOMAIN form THEN form[name] ELSE default

\* the defaults of lines 187 and 194 are one-element lists, not texts
DefaultRequestType == <<"['get']">>
DefaultPath == <<"['/']">>

EmptyObjectText == <<"{", "}">>
JsonObjectText == <<"{", "\"", "a", "\"", ":", "1", "}">>

\* json.loads on the texts the forms are drawn from; a dictionary is its set of items
loads(text) ==
    CASE text = EmptyObjectText -> [ok |-> TRUE, value |-> {}]
      [] text = JsonObjectText  -> [ok |-> TRUE, value |-> {<<"a", 1>>}]
      [] OTHER                  -> [ok |-> FALSE, value |-> {}]

dumps(records) == [json |-> records]

\* get_raw_request: the exception that leaves it ("" when none) and the records it returns
get_raw_request(request_out) ==
    IF request_out = "ok" THEN [raised |-> "", records |-> [data |-> "data"]]
    ELSE IF request_out = "MonzoPermissionsError"
    THEN [raised |-> "",
          records |-> [message |-> "The request resulted in a permissions error."]]
    ELSE IF request_out = "MonzoHTTPError"
    THEN [raised |-> "", records |-> [message |-> "The request appears invalid."]]
    ELSE [raised |-> request_out, records |-> [data |-> ""]]

RequestTypeFromOwnField(form) == FormGet(form, "request_type", DefaultRequestType)

\* line 187
RequestType(form) == FormGet(form, "authenticated", DefaultRequestType)

\* line 186
Authenticated(form) ==
    IF "authenticated" \in DOMAIN form THEN form["authenticated"] # <<>> ELSE TRUE

raw_request(st, method, form, request_out) ==
    LET auth == auth_setup(st, <<>>, <<>>)
        cs1  == <<Constructed(auth)>>
    IN  IF method = "GET" THEN Result(st, cs1, render_template("raw_request.html", [none |-> ""]))
        ELSE
          LET headers == IF "headers" \in DOMAIN form THEN loads(form["headers"])
                         ELSE [ok |-> TRUE, value |-> {}]
              monzo_parameters ==
                         IF "parameters" \in DOMAIN form /\ form["parameters"] # <<>>
                         THEN loads(form["parameters"])
                         ELSE [ok |-> TRUE, value |-> {}]
              cs2 == Append(cs1, Call("make_request", auth,
                         [path |-> FormGet(form, "path", DefaultPath),
                          authenticated |-> Authenticated(form),
                          method |-> RequestType(form),
                          data |-> monzo_parameters.value,
                          headers |-> headers.value], request_out))
              got == get_raw_request(request_out)
          IN  IF ~headers.ok THEN Result(st, cs1, Raise("JSONDecodeError"))
              ELSE IF ~monzo_parameters.ok THEN Result(st, cs1, Raise("JSONDecodeError"))
              ELSE IF got.raised # "" THEN Result(st, cs2, Raise(got.raised))
              ELSE Result(st, cs2, render_template("raw_request_result.html",
                                        [records |-> dumps(got.records)]))

(* --------------------------------- setup ------------------------------ *)

SetupMessage == "Ensure you enter both a Client ID and a Client Secret."

\* the context of lines 207-213
SetupContextSecretFromId(form) ==
    [REDIRECT_URL |-> REDIRECT_URL,
     CLIENT_ID_VALUE |-> escape(form["client_id"]),
     CLIENT_SECRET_VALUE |-> escape(form["client_id"])]

SetupContext(form) ==
    [REDIRECT_URL |-> REDIRECT_URL,
     CLIENT_ID_VALUE |-> escape(form["client_id"]),
     CLIENT_SECRET_VALUE |-> escape(form["client_secret"])]

\* line 214
SetupFieldEmpty(context) ==
    Len(context.CLIENT_ID_VALUE) = 0 \/ Len(context.CLIENT_SECRET_VALUE) = 0

setup(st, method, form) ==
    IF method = "GET"
    THEN Result(st, <<>>, render_template("setup.html", [REDIRECT_URL |-> REDIRECT_URL]))
    ELSE IF "client_id" \notin DOMAIN form THEN Result(st, <<>>, Raise("BadRequestKeyError"))
    ELSE IF "client_secret" \notin DOMAIN form THEN Result(st, <<>>, Raise("BadRequestKeyError"))
    ELSE
      LET context == SetupContext(form)
      IN  IF SetupFieldEmpty(context)
          THEN Result(st, <<>>, render_template("setup.html",
                 [REDIRECT_URL |-> context.REDIRECT_URL,
                  CLIENT_ID_VALUE |-> context.CLIENT_ID_VALUE,
                  CLIENT_SECRET_VALUE |-> context.CLIENT_SECRET_VALUE,
                  message |-> SetupMessage]))
          ELSE
            LET st2  == set_client_details(st, context.CLIENT_ID_VALUE,
                                           context.CLIENT_SECRET_VALUE)
                auth == auth_setup(st2, st2.client_id, st2.client_secret)
            IN  Result(st2,
                       <<Call("set_client_details", NoAuth,
                              [client_id |-> context.CLIENT_ID_VALUE,
                               client_secret |-> context.CLIENT_SECRET_VALUE], "ok"),
                         Constructed(auth)>>,
                       redirect(authentication_url(auth)))

(* ----------------------------- setup_callback ------------------------- *)

CallbackViewIgnoringServerError(authenticate_out) ==
    IF authenticate_out \in {"ok", "MonzoServerError"}
    THEN render_template("success.html", [none |-> ""])
    ELSE IF authenticate_out = "MonzoAuthenticationError"
    THEN render_template("error.html", [message |-> "Monzo authentication error."])
    ELSE Raise(authenticate_out)

\* lines 239-248: the answer once authenticate has ended
CallbackView(authenticate_out) ==
    IF authenticate_out = "ok"
    THEN render_template("success.html", [none |-> ""])
    ELSE IF authenticate_out = "MonzoAuthenticationError"
    THEN render_template("error.html", [message |-> "Monzo authentication error."])
    ELSE IF authenticate_out = "MonzoServerError"
    THEN render_template("error.html", [message |-> "Monzo server error."])
    ELSE Raise(authenticate_out)

setup_callback(st, args, authenticate_out) ==
    IF "code" \in DOMAIN args /\ "state" \in DOMAIN args
    THEN
      LET auth == Authentication(st.client_id, st.client_secret, <<>>)
          cs   == <<Constructed(auth),
                    Call("authenticate", auth,
                         [authorization_token |-> args["code"],
                          state_token |-> args["state"]], authenticate_out)>>
      IN  Result(IF authenticate_out = "ok" THEN store_tokens(st, auth) ELSE st,
                 cs, CallbackView(authenticate_out))
    ELSE Result(st, <<>>, render_template("error.html", [message |-> "Missing parameters."]))

(* ------------------------- the requests explored ---------------------- *)

Get == <<"g", "e", "t">>
Post == <<"p", "o", "s", "t">>
SamplePath == <<"/", "<">>
SampleText == <<"<">>

FeedForms ==
    Forms([title : Texts, account : Texts \cup {PleaseSelect}, feed_item_url : {SampleText},
           body : {SampleText}, title_color : {SampleText}, body_color : {SampleText},
           background_color : {SampleText}, image_url : {SampleText}],
          {D \cup O : D \in SUBSET {"title", "account", "feed_item_url"},
                      O \in {{}, {"body"}, optional_parameters}})

TransactionForms ==
    Forms([account : Texts \cup {PleaseSelect}], SUBSET {"account"})

RawForms ==
    Forms([authenticated : Texts \cup {Get}, request_type : {Post}, path : {SamplePath},
           headers : {EmptyObjectText, JsonObjectText, SampleText},
           parameters : {<<>>, JsonObjectText, SampleText}],
          SUBSET {"authenticated", "request_type", "path", "headers", "parameters"})

SetupForms ==
    Forms([client_id : Texts, client_secret : Texts], SUBSET {"client_id", "client_secret"})

CallbackArgs ==
    Forms([code : Texts, state : Texts], SUBSET {"code", "state"})

(* ------------------------------ the server ---------------------------- *)

Idling == req = NoRequest

Handle(request, result) ==
    \E r \in {result} :
        /\ req' = request
        /\ store' = r.store
        /\ calls' = r.calls
        /\ resp' = r.resp
        /\ UNCHANGED <<provider_accounts, all_accounts, selected_accounts>>

Init ==
    /\ store = EmptyStore
    /\ req = NoRequest
    /\ calls = <<>>
    /\ resp = NoResponse
    /\ provider_accounts = <<>>
    /\ all_accounts = FALSE
    /\ selected_accounts = NotFetched

Index ==
    /\ Idling
    /\ Handle(Request("/", "GET", NoForm), index(store))

Accounts ==
    /\ Idling
    /\ \E account_out \in Outcomes :
         \E account_list \in IF account_out = "ok" THEN SampleAccountLists
                                                  ELSE {AccountList(<<>>)} :
           Handle(Request("/accounts", "GET", NoForm),
                  accounts(store, account_out, account_list))

FeedItemGet ==
    /\ Idling
    /\ \E account_out \in Outcomes :
         \E account_list \in IF account_out = "ok" THEN SampleAccountLists
                                                  ELSE {AccountList(<<>>)} :
           Handle(Request("/feed_item", "GET", NoForm),
                  feed_iten(store, "GET", NoForm, account_out, account_list, "ok"))

\* create_out is drawn only when Account.fetch returned and FeedItem.create is reached
FeedItemPost ==
    /\ Idling
    /\ \E form \in FeedForms, account_out \in Outcomes, create_out \in Outcomes :
         \E account_list \in IF account_out = "ok" THEN SampleAccountLists
                                                  ELSE {AccountList(<<>>)} :
           /\ account_out # "ok" => create_out = "ok"
           /\ Handle(Request("/feed_item", "POST", form),
                  feed_iten(store, "POST", form, account_out, account_list, create_out))

Transactions ==
    /\ Idling
    /\ \E form \in TransactionForms, fetch_out \in Outcomes :
           Handle(Request("/transactions", "POST", form),
                  transactions_for_account(store, form, fetch_out))

RawRequestGet ==
    /\ Idling
    /\ Handle(Request("/raw_request", "GET", NoForm), raw_request(store, "GET", NoForm, "ok"))

RawRequestPost ==
    /\ Idling
    /\ \E form \in RawForms, request_out \in Outcomes :
           Handle(Request("/raw_request", "POST", form),
                  raw_request(store, "POST", form, request_out))

SetupGet ==
    /\ Idling
    /\ Handle(Request("/setup/", "GET", NoForm), setup(store, "GET", NoForm))

SetupPost ==
    /\ Idling
    /\ \E form \in SetupForms : Handle(Request("/setup/", "POST", form), setup(store, "POST", form))

SetupCallback ==
    /\ Idling
    /\ \E args \in CallbackArgs, authenticate_out \in Outcomes :
           Handle(Request("/setup/callback/", "GET", args),
                  setup_callback(store, args, authenticate_out))

\* the response has been sent: the server waits for the next request
Idle ==
    /\ ~Idling
    /\ req' = NoRequest
    /\ calls' = <<>>
    /\ resp' = NoResponse
    /\ UNCHANGED <<store, provider_accounts, all_accounts, selected_accounts>>

Next ==
    \/ Index
    \/ Accounts
    \/ FeedItemGet
    \/ FeedItemPost
    \/ Transactions
    \/ RawRequestGet
    \/ RawRequestPost
    \/ SetupGet
    \/ SetupPost
    \/ SetupCallback
    \/ Idle

Spec == Init /\ [][Next]_vars

(* ------------------- fetch_accounts as a pure function ---------------- *)

InitFetch ==
    /\ store = EmptyStore
    /\ req = NoRequest
    /\ calls = <<>>
    /\ resp = NoResponse
    /\ provider_accounts \in AccountLists
    /\ all_accounts = FALSE
    /\ selected_accounts = NotFetched

FetchAccounts(all) ==
    /\ all_accounts' = all
    /\ selected_accounts' = [done |-> TRUE, value |-> fetch_accounts(provider_accounts, all)]
    /\ UNCHANGED <<store, req, calls, resp, provider_accounts>>

FetchSelected == FetchAccounts(FALSE)

FetchAll == FetchAccounts(TRUE)

NextFetch == FetchSelected \/ FetchAll

SpecFetch == InitFetch /\ [][NextFetch]_vars

(* =============================== claims =============================== *)

Ops(cs) == {cs[i].op : i \in DOMAIN cs}

CallsTo(cs, op) == {i \in DOMAIN cs : cs[i].op = op}

\* the calls that go to the provider over the network
ProviderOps == {"Account.fetch", "FeedItem.create", "Transaction.fetch",
                "make_request", "authenticate"}

\* the calls made on behalf of the stored client
AuthenticatedOps == {"Account.fetch", "FeedItem.create", "Transaction.fetch", "make_request"}

NoProviderCall(cs) == Ops(cs) \cap ProviderOps = {}

Serving(route, method) == req.route = route /\ req.method = method

Present(form, field) == field \in DOMAIN form

EmptyField(form, field) == Present(form, field) /\ form[field] = <<>>

Renders(r, template, message) ==
    /\ r.kind = "render"
    /\ r.template = template
    /\ "message" \in DOMAIN r.context
    /\ r.context.message = message

Loans == {"Loan (Flex)", "Loan"}

(* C1: fetch_accounts(all_accounts=False) returns exactly the accounts of the      *)
(* provider's list whose type is neither "Loan (Flex)" nor "Loan", in their        *)
(* original order, and fetch_accounts(all_accounts=True) returns the list as is.   *)
C1_FetchAccountsFilter ==
    selected_accounts.done =>
      LET got == selected_accounts.value
      IN  IF all_accounts THEN got = provider_accounts
          ELSE /\ \A i \in DOMAIN got :
                    /\ got[i].id \in DOMAIN provider_accounts
                    /\ got[i] = provider_accounts[got[i].id]
                    /\ got[i].account_type \notin Loans
               /\ \A i, j \in DOMAIN got : i < j => got[i].id < got[j].id
               /\ \A k \in DOMAIN provider_accounts :
                    provider_accounts[k].account_type \notin Loans
                      => \E i \in DOMAIN got : got[i] = provider_accounts[k]

C1_Witness ==
    /\ selected_accounts.done
    /\ ~all_accounts
    /\ {provider_accounts[k].account_type : k \in DOMAIN provider_accounts}
         = {"Loan", "Loan (Flex)", "Flex"}
    /\ Len(selected_accounts.value) = 1

SetupFormRerendered(r) == Renders(r, "setup.html", SetupMessage)

(* C2: a POST to /setup/ in which client_id is empty or client_secret  *)
(* is empty leaves the credential store unchanged, does not call                   *)
(* set_client_details, does not redirect, and re-renders the setup form with the   *)
(* message 'Ensure you enter both a Client ID and a Client Secret.'.               *)
C2_AsClaimed ==
    [][(/\ req'.route = "/setup/" /\ req'.method = "POST"
        /\ (EmptyField(req'.form, "client_id") \/ EmptyField(req'.form, "client_secret")))
       => (/\ store' = store
           /\ "set_client_details" \notin Ops(calls')
           /\ resp'.kind # "redirect"
           /\ SetupFormRerendered(resp'))]_vars

(* What does hold of line 214: a POST to /setup/ in which a field is empty or      *)
(* absent never changes the store, never calls set_client_details and never        *)
(* redirects; the form is re-rendered with the message when both fields were sent. *)
SetupEmptyFieldKeepsStore ==
    [][(/\ req'.route = "/setup/" /\ req'.method = "POST"
        /\ (\/ ~Present(req'.form, "client_id") \/ ~Present(req'.form, "client_secret")
            \/ EmptyField(req'.form, "client_id") \/ EmptyField(req'.form, "client_secret")))
       => (/\ store' = store
           /\ "set_client_details" \notin Ops(calls')
           /\ resp'.kind # "redirect"
           /\ (Present(req'.form, "client_id") /\ Present(req'.form, "client_secret")
                 => SetupFormRerendered(resp')))]_vars

SetupEmptyFieldSeen ==
    /\ Serving("/setup/", "POST")
    /\ EmptyField(req.form, "client_secret")
    /\ Present(req.form, "client_id") /\ req.form["client_id"] # <<>>
    /\ is_configured(store)
    /\ store.client_id # escape(req.form["client_id"])
    /\ SetupFormRerendered(resp)

BothCredentialsGiven ==
    /\ Serving("/setup/", "POST")
    /\ Present(req.form, "client_id") /\ req.form["client_id"] # <<>>
    /\ Present(req.form, "client_secret") /\ req.form["client_secret"] # <<>>

RedirectsToAuthorization ==
    /\ resp.kind = "redirect"
    /\ resp.location.path = "https://auth.monzo.com"
    /\ resp.location.client_id = store.client_id
    /\ resp.location.client_secret = store.client_secret
    /\ resp.location.redirect_uri = REDIRECT_URL

(* C3, as claimed: a POST to /setup/ with client_id and client_secret both         *)
(* non-empty stores exactly those two values, redirects to the authorization URL   *)
(* built from the stored values, and leaves the store configured.                  *)
C3_AsClaimed ==
    BothCredentialsGiven =>
      /\ store.client_id = req.form["client_id"]
      /\ store.client_secret = req.form["client_secret"]
      /\ RedirectsToAuthorization
      /\ is_configured(store)

(* C3, amended: a POST to /setup/ with client_id and client_secret both non-empty  *)
(* stores the HTML-escaped forms of those two values, redirects to the             *)
(* authorization URL built from the stored values, and leaves the store            *)
(* configured.                                                                     *)
C3_SetupStoresEscapedCredentials ==
    BothCredentialsGiven =>
      /\ store.client_id = escape(req.form["client_id"])
      /\ store.client_secret = escape(req.form["client_secret"])
      /\ \E i \in CallsTo(calls, "set_client_details") :
           /\ calls[i].args.client_id = store.client_id
           /\ calls[i].args.client_secret = store.client_secret
      /\ RedirectsToAuthorization
      /\ is_configured(store)

C3_Witness ==
    /\ BothCredentialsGiven
    /\ req.form["client_id"] = <<"<">>
    /\ req.form["client_secret"] = <<"a">>
    /\ store.client_id = <<"&", "l", "t", ";">>
    /\ store.client_secret = <<"a">>
    /\ resp.kind = "redirect"

NoAccountGiven ==
    \/ ~Present(req.form, "account")
    \/ req.form["account"] = <<>>
    \/ req.form["account"] = PleaseSelect

(* C4, as claimed: a POST to /transactions with no account field, an empty one or  *)
(* "Please Select" gets the error view 'No account specified.' and no provider     *)
(* call; in every other case Transaction.fetch is called exactly once, with that   *)
(* account id.                                                                     *)
C4_AsClaimed ==
    Serving("/transactions", "POST") =>
      IF NoAccountGiven
      THEN Renders(resp, "error.html", "No account specified.") /\ NoProviderCall(calls)
      ELSE /\ Cardinality(CallsTo(calls, "Transaction.fetch")) = 1
           /\ \A i \in CallsTo(calls, "Transaction.fetch") :
                calls[i].args.account_id = req.form["account"]

(* C4, amended: as claimed, except that in every other case Transaction.fetch is   *)
(* called exactly once with the HTML-escaped form of that account id.              *)
C4_TransactionsNeedAccount ==
    Serving("/transactions", "POST") =>
      IF NoAccountGiven
      THEN Renders(resp, "error.html", "No account specified.") /\ NoProviderCall(calls)
      ELSE /\ Cardinality(CallsTo(calls, "Transaction.fetch")) = 1
           /\ Ops(calls) \cap ProviderOps = {"Transaction.fetch"}
           /\ \A i \in CallsTo(calls, "Transaction.fetch") :
                calls[i].args.account_id = escape(req.form["account"])

C4_Witness ==
    /\ Serving("/transactions", "POST")
    /\ Present(req.form, "account")
    /\ req.form["account"] = <<"<">>
    /\ \E i \in CallsTo(calls, "Transaction.fetch") :
         calls[i].args.account_id = <<"&", "l", "t", ";">>

(* C5: a GET to /setup/callback/ without `code` or without `state` gets the error  *)
(* view 'Missing parameters.' and neither constructs the Authentication object nor *)
(* calls authenticate; the exchange is attempted only with both parameters, and    *)
(* the success view is returned only if the exchange raised no error.              *)
C5_CallbackNeedsCodeAndState ==
    Serving("/setup/callback/", "GET") =>
      /\ (~Present(req.form, "code") \/ ~Present(req.form, "state"))
           => Renders(resp, "error.html", "Missing parameters.") /\ calls = <<>>
      /\ "authenticate" \in Ops(calls)
           => Present(req.form, "code") /\ Present(req.form, "state")
      /\ (resp.kind = "render" /\ resp.template = "success.html")
           => \E i \in CallsTo(calls, "authenticate") : calls[i].out = "ok"

C5_Witness ==
    /\ Serving("/setup/callback/", "GET")
    /\ Present(req.form, "code") /\ Present(req.form, "state")
    /\ \E i \in CallsTo(calls, "authenticate") : calls[i].out = "MonzoServerError"
    /\ Renders(resp, "error.html", "Monzo server error.")

(* C6: every provider-side error raised by a provider call made during a request   *)
(* is caught inside the handler and turned into a rendered view; none escapes.     *)
C6_AsClaimed ==
    (\E i \in DOMAIN calls : calls[i].op \in ProviderOps /\ calls[i].out \in ProviderErrors)
      => resp.kind = "render"

(* C7: starting from an empty credential store, an authenticated provider call is  *)
(* attempted only while the stored client_id and client_secret are both non-empty. *)
C7_AsClaimed ==
    (Ops(calls) \cap AuthenticatedOps # {})
      => store.client_id # <<>> /\ store.client_secret # <<>>

MissingRequiredField ==
    \/ /\ Serving("/feed_item", "POST")
       /\ (~Present(req.form, "title") \/ ~Present(req.form, "account"))
    \/ /\ Serving("/transactions", "POST")
       /\ ~Present(req.form, "account")
    \/ /\ Serving("/setup/", "POST")
       /\ (~Present(req.form, "client_id") \/ ~Present(req.form, "client_secret"))

(* C8: a request that lacks a required form field is rejected before any network   *)
(* call to the provider is made in that request, with a rendered view.             *)
C8_AsClaimed ==
    MissingRequiredField => NoProviderCall(calls) /\ resp.kind = "render"

Escaped(form, field, passed) == Present(form, field) => passed = escape(form[field])

(* C9: every user-supplied text handed to FeedItem.create, Transaction.fetch,      *)
(* make_request, authenticate, the credential store or a template is the           *)
(* HTML-escaped form of what the user sent.                                        *)
C9_AsClaimed ==
    /\ \A k \in {"CLIENT_ID_VALUE", "CLIENT_SECRET_VALUE"} :
         (resp.kind = "render" /\ k \in DOMAIN resp.context)
           => resp.context[k] = escape(req.form[IF k = "CLIENT_ID_VALUE" THEN "client_id"
                                                                         ELSE "client_secret"])
    /\ \A i \in DOMAIN calls :
      /\ calls[i].op = "FeedItem.create"
           => /\ Escaped(req.form, "account", calls[i].args.account_id)
              /\ Escaped(req.form, "feed_item_url", calls[i].args.url)
              /\ \A k \in DOMAIN calls[i].args.params :
                   Escaped(req.form, k, calls[i].args.params[k])
      /\ calls[i].op = "Transaction.fetch"
           => Escaped(req.form, "account", calls[i].args.account_id)
      /\ calls[i].op = "set_client_details"
           => /\ Escaped(req.form, "client_id", calls[i].args.client_id)
              /\ Escaped(req.form, "client_secret", calls[i].args.client_secret)
      /\ calls[i].op = "make_request"
           => /\ Escaped(req.form, "path", calls[i].args.path)
              /\ Escaped(req.form, "authenticated", calls[i].args.method)
      /\ calls[i].op = "authenticate"
           => /\ Escaped(req.form, "code", calls[i].args.authorization_token)
              /\ Escaped(req.form, "state", calls[i].args.state_token)

(* C10: in a /raw_request POST the method handed to the provider call is read from *)
(* the form field `authenticated`: when the field is present the method is its     *)
(* value and the flag is true iff the value is non-empty; when it is absent the    *)
(* flag is true and the method is the default.  The `request_type` field has no    *)
(* say in the method.                                                              *)
C10_MethodReadFromAuthenticated ==
    Serving("/raw_request", "POST") =>
      \A i \in CallsTo(calls, "make_request") :
        IF Present(req.form, "authenticated")
        THEN /\ calls[i].args.method = req.form["authenticated"]
             /\ calls[i].args.authenticated = (req.form["authenticated"] # <<>>)
        ELSE /\ calls[i].args.method = DefaultRequestType
             /\ calls[i].args.authenticated = TRUE

C10_Witness ==
    /\ Serving("/raw_request", "POST")
    /\ Present(req.form, "request_type") /\ req.form["request_type"] = Post
    /\ Present(req.form, "authenticated") /\ req.form["authenticated"] = Get
    /\ \E i \in CallsTo(calls, "make_request") :
         calls[i].args.method = Get /\ calls[i].args.authenticated = TRUE

====
